---- MODULE Spec2Model ----
(***************************************************************************)
(* Model of the cart service (src/services/cart/cart.service.js).          *)
(*                                                                         *)
(* Storage is a set of cart documents.  Every request is a small process   *)
(* with its own context (ctx.params, ctx.meta.cart); its asynchronous      *)
(* steps (product lookup, storage read, cart creation, storage write)      *)
(* interleave with the steps of the other requests and of the sweeper.     *)
(***************************************************************************)
EXTENDS Integers, Sequences, FiniteSets, TLC

\* ---------------------------------------------------------------- bounds
MaxTime == 2
MaxAmount == 3
\* requests started in one behaviour
MaxOps == 2

\* "now minus one month", counted in ticks of the model clock
RetentionWindow == 1

\* ------------------------------------------------------------ small sets
Req == {"r1", "r2"}
Tokens == {"h1", "h2"}
NoItem == ""
NoRequirements == << >>
Engraving == << "engraving" >>
RemoteAddress == "10.0.0.1"

\* the Product collaborator's records (stock held constant)
Catalogue ==
    [ p_phys |-> [_id |-> "p_phys", type |-> "simple", subtype |-> "physical", stockAmount |-> 2],
      p_digi |-> [_id |-> "p_digi", type |-> "simple", subtype |-> "digital", stockAmount |-> 0],
      p_plan |-> [_id |-> "p_plan", type |-> "subscription", subtype |-> "online", stockAmount |-> 1],
      p_book |-> [_id |-> "p_book", type |-> "simple", subtype |-> "digital", stockAmount |-> -1],
      p_subs |-> [_id |-> "p_subs", type |-> "subscription", subtype |-> "online", stockAmount |-> -1] ]

ProductIds == DOMAIN Catalogue
ItemIds == ProductIds \cup {"p_gone"}
\* ids a caller names in delete and updateCartItemAmount: those a cart can
\* hold and one it cannot
LineIds == {"p_phys", "p_subs", "p_book", "p_gone"}

\* shapes of a lookup result: nothing at all, an empty list, a one-element list
NoResult == [shape |-> "none"]
EmptyList == [shape |-> "empty"]
ListOf(p) == [shape |-> "list", product |-> p]

\* ctx.meta.cart not set / cart.me resolved to undefined
NoCart == [undefined |-> TRUE]

\* the requirements a caller supplies: only the physical good is configurable
RequirementsFor(itemId) ==
    IF itemId = "p_phys" THEN {NoRequirements, Engraving} ELSE {NoRequirements}

\* ctx.meta.user of the caller holding a token: h1 is logged in, h2 anonymous
Owner(token) == IF token = "h1" THEN "u1" ELSE ""

VARIABLES
    store,   \* the cart collection: a set of documents
    nextId,  \* the next storage-assigned id
    now,     \* the clock
    req,     \* the requests in flight: position, operation, ctx.meta
    last,    \* the operation completed by the latest step, if any
    sweep,   \* the cleanCarts run in progress
    ops,     \* the number of requests started so far
    par,     \* how many requests the deployment handles at a time
    first,   \* the first request completed, where a pair of requests is observed
    cacher   \* this.broker.cacher: the read cache of cart.me, if one is configured

vars == << store, nextId, now, req, last, sweep, ops, par, first, cacher >>

\* --------------------------------------------------------- pure helpers
Min(S) == CHOOSE x \in S : \A y \in S : x <= y

Splice(items, i) == [j \in 1..(Len(items) - 1) |-> IF j < i THEN items[j] ELSE items[j + 1]]

\* the for loop with break: first index whose _id equals itemId, 0 for -1
FindIndex(items, itemId) ==
    LET hits == {i \in 1..Len(items) : items[i]._id = itemId}
    IN  IF hits = {} THEN 0 ELSE Min(hits)

\* found[0] of a storage query by hash: the oldest matching document
FindByHash(h) == {c \in store : c.hash = h}
First(found) == CHOOSE c \in found : \A d \in found : c._id <= d._id

\* methods.prepareForUpdate: copy without a truthy _id, wrapped in $set
PrepareForUpdate(object) ==
    IF "_id" \in DOMAIN object /\ object._id # 0
    THEN [f \in (DOMAIN object) \ {"_id"} |-> object[f]]
    ELSE object

\* UpdateById of a storage where the first write wins: a document is left
\* as it is unless the fields carry a later dateUpdated
UpdateById_FirstWins(id, fields) ==
    { IF c._id = id /\ c.dateUpdated < fields.dateUpdated
        THEN [f \in (DOMAIN c) \cup (DOMAIN fields) |->
                 IF f \in DOMAIN fields THEN fields[f] ELSE c[f]]
        ELSE c : c \in store }

\* adapter.updateById(id, {$set: fields}): the document with that id gets the
\* fields; no document with that id, nothing is written
UpdateById(id, fields) ==
    { IF c._id = id
        THEN [f \in (DOMAIN c) \cup (DOMAIN fields) |->
                 IF f \in DOMAIN fields THEN fields[f] ELSE c[f]]
        ELSE c : c \in store }

\* a cart.me request without a dateUpdated param
NoDate == -1

\* asked keeps the amount the caller sent (ctx.params.amount is overwritten);
\* dateUpdated is the param of that name of the cart.me call; hit: the call
\* was answered by the cacher
IdleReq ==
    [pc |-> "idle", op |-> "none", token |-> "h1", itemId |-> NoItem, asked |-> 0,
     amount |-> 0, requirements |-> NoRequirements, product |-> NoResult,
     cart |-> NoCart, dateUpdated |-> NoDate, hit |-> FALSE]

\* no cacher is configured on the broker / a cacher that holds nothing yet
NoCacher == [on |-> FALSE, entries |-> {}]
EmptyCacher == [on |-> TRUE, entries |-> {}]

\* actions.me, cache.keys: ["#cookies.cart", "dateUpdated"]: the cookie of
\* ctx.meta and the dateUpdated param of the call
Key(r) == << req[r].token, req[r].dateUpdated >>

\* the cacher keeps the result of a cart.me handler under the key of the call
\* (an undefined result counts as nothing cached)
Stored(c, key, value) ==
    IF c.on /\ value # NoCart
    THEN [c EXCEPT !.entries = {e \in @ : e.key # key} \cup {[key |-> key, value |-> value]}]
    ELSE c

\* Cleaned without the clean
Cleaned_Keep(c) == c

\* events, "cache.clean.cart": this.broker.cacher.clean("cart.*")
Cleaned(c) == IF c.on THEN [c EXCEPT !.entries = {}] ELSE c

\* this.entityChanged(type, json, ctx) of the db mixin: the cache
\* invalidation signal is fired and the service's cache namespace cleaned
EntityChanged(c) == Cleaned(c)

\* amount: as sent by the caller (0: not given); passed: ctx.params.amount as
\* the handler used it; base: the cart cart.me resolved; cart: ctx.meta.cart
\* when the handler ended; hit: cart.me was answered by the cacher
NoOp ==
    [op |-> "none", token |-> "h1", itemId |-> NoItem, amount |-> 0, passed |-> 0,
     requirements |-> NoRequirements, cartNew |-> [none |-> TRUE], lookup |-> NoResult,
     merge |-> FALSE, base |-> NoCart, cart |-> NoCart, outcome |-> "", event |-> "",
     hit |-> FALSE]

\* first while no pair of requests is observed, and before the first of an
\* observed pair has completed
Unobserved == [mode |-> "off", log |-> NoOp, store |-> {}]
Awaited == [mode |-> "unset", log |-> NoOp, store |-> {}]

IdleSweep ==
    [pc |-> "idle", at |-> 0, cutoff |-> 0, pending |-> {}, attempted |-> {},
     removed |-> {}, failed |-> {}, before |-> {}, quiet |-> TRUE, outcome |-> "",
     results |-> {}]

Init ==
    /\ store = {}
    /\ nextId = 1
    /\ now = 0
    /\ req = [r \in Req |-> IdleReq]
    /\ last = NoOp
    /\ sweep = IdleSweep
    /\ ops = 0
    /\ par = 1
    /\ first = Unobserved
    /\ cacher = NoCacher

\* a request step that runs while a sweep is in progress makes the sweep
\* a concurrent one
Disturbed == IF sweep.pc = "idle" THEN sweep ELSE [sweep EXCEPT !.quiet = FALSE]

Tick ==
    /\ now < MaxTime
    /\ now' = now + 1
    /\ last' = NoOp
    /\ UNCHANGED << store, nextId, req, sweep, ops, par, first, cacher >>

\* ------------------------------------------------- the operations' logic

\* productAvailable[0] of a lookup result is truthy
HasFirst(lookup) == lookup.shape = "list"

\* actions.add, line 180: the "no matching product" test on the lookup result
\* (an empty list is truthy and [][0] is undefined, so only "no result at
\* all" is rejected)
ProductMissing(lookup) ==
    \/ lookup.shape = "none"
    \/ (lookup.shape = "empty" /\ HasFirst(lookup))

\* StockCheck without the rejection of a finite-stock digital product
StockCheck_Clamp(product, amount) ==
    IF amount > product.stockAmount
    THEN IF product.type = "subscription" \/ product.subtype = "digital"
         THEN [outcome |-> "ok", amount |-> 1]
         ELSE [outcome |-> "InsufficientStock", amount |-> amount]
    ELSE [outcome |-> "ok", amount |-> amount]

\* StockCheck without the assignment ctx.params.amount = 1
StockCheck_NoClamp(product, amount) ==
    IF amount > product.stockAmount
    THEN IF product.type = "subscription" \/ product.subtype = "digital"
         THEN IF product.stockAmount > -1
              THEN [outcome |-> "InsufficientStock", amount |-> amount]
              ELSE [outcome |-> "ok", amount |-> amount]
         ELSE [outcome |-> "InsufficientStock", amount |-> amount]
    ELSE [outcome |-> "ok", amount |-> amount]

\* actions.add, lines 184-196: the availability check on a resolved product
StockCheck(product, amount) ==
    IF amount > product.stockAmount
    THEN IF product.type = "subscription" \/ product.subtype = "digital"
         THEN IF product.stockAmount > -1
              THEN [outcome |-> "InsufficientStock", amount |-> 1]
              ELSE [outcome |-> "ok", amount |-> 1]
         ELSE [outcome |-> "InsufficientStock", amount |-> amount]
    ELSE [outcome |-> "ok", amount |-> amount]

\* actions.add, lines 175-197: the first then() of the handler
AddCheck(lookup, amount) ==
    IF ProductMissing(lookup)
    THEN [outcome |-> "ProductNotFound", amount |-> amount]
    ELSE IF lookup.shape = "empty"
         \* amount > undefined is false: the empty list is passed on
         THEN [outcome |-> "ok", amount |-> amount]
         ELSE StockCheck(lookup.product, amount)

\* the _id of the snapshot handed to the merge step
SnapshotId(lookup) == IF lookup.shape = "list" THEN lookup.product._id ELSE "undefined"

\* merge step: the line with the same product id and the same requirements
MergeIndex(items, id, requirements) ==
    LET hits == {i \in 1..Len(items) :
                    items[i]._id = id /\ items[i].requirements = requirements}
    IN  IF hits = {} THEN 0 ELSE Min(hits)

\* MergeItems that appends a line on every add
MergeItems_Append(items, id, amount, requirements) ==
    Append(items, [_id |-> id, amount |-> amount, requirements |-> requirements])

\* merge step: increment the matching line or append a new one
MergeItems(items, id, amount, requirements) ==
    LET i == MergeIndex(items, id, requirements)
    IN  IF i > 0
        THEN [items EXCEPT ![i].amount = @ + amount]
        ELSE Append(items, [_id |-> id, amount |-> amount, requirements |-> requirements])

\* DeleteItems with "< 0" for "<= 0" in the removal test
DeleteItems_Strict(items, itemId, amount) ==
    IF itemId # NoItem
    THEN LET productInCart == FindIndex(items, itemId)
         IN  IF productInCart > 0
             THEN IF amount > 0
                  THEN IF items[productInCart].amount - amount < 0
                       THEN Splice(items, productInCart)
                       ELSE [items EXCEPT ![productInCart].amount = @ - amount]
                  ELSE Splice(items, productInCart)
             ELSE items
    ELSE << >>

\* actions.delete, lines 233-259
DeleteItems(items, itemId, amount) ==
    IF itemId # NoItem
    THEN LET productInCart == FindIndex(items, itemId)
         IN  IF productInCart > 0
             THEN IF amount > 0
                  THEN IF items[productInCart].amount - amount <= 0
                       THEN Splice(items, productInCart)
                       ELSE [items EXCEPT ![productInCart].amount = @ - amount]
                  ELSE Splice(items, productInCart)
             ELSE items
    ELSE << >>

\* PinAmount without the pin
PinAmount_Off(line) == line

\* actions.updateCartItemAmount, lines 317-320: a line with requirements
PinAmount(line) ==
    IF Len(line.requirements) > 0 THEN [line EXCEPT !.amount = 1] ELSE line

\* actions.updateCartItemAmount, lines 299-323 (amount already defaulted)
UpdateItems(items, itemId, amount) ==
    IF itemId # NoItem
    THEN LET productInCart == FindIndex(items, itemId)
         IN  IF productInCart > 0 /\ amount > 0
             THEN LET set == [items EXCEPT ![productInCart].amount = amount]
                      kept == IF set[productInCart].amount <= 0
                              THEN Splice(set, productInCart) ELSE set
                  IN  IF productInCart <= Len(kept)
                      THEN [kept EXCEPT ![productInCart] = PinAmount(@)]
                      ELSE kept
             ELSE items
    ELSE items

\* PatchCart as Object.assign(cart, cartNew): without the hasOwnProperty test
PatchCart_Assign(cart, cartNew) ==
    [f \in (DOMAIN cart) \cup (DOMAIN cartNew) |->
        IF f \in DOMAIN cartNew THEN cartNew[f] ELSE cart[f]]

\* actions.updateMyCart, lines 358-364: the property loop
PatchCart(cart, cartNew) ==
    [f \in DOMAIN cart |-> IF f \in DOMAIN cartNew THEN cartNew[f] ELSE cart[f]]

\* cart.dateUpdated = new Date()
Stamp(cart, t) == [cart EXCEPT !.dateUpdated = t]

\* StaleCarts with $lte for $lt
StaleCarts_Inclusive(carts, cutoff) == {c \in carts : c.dateUpdated <= cutoff}

\* actions.cleanCarts, lines 391-395: dateUpdated strictly before the cutoff
StaleCarts(carts, cutoff) == {c \in carts : c.dateUpdated < cutoff}

\* the patches a caller sends to updateMyCart
Patches ==
    { [user |-> "u2"],
      [hash |-> "h2"],
      [_id |-> 1],
      [dateUpdated |-> 0],
      [coupon |-> "x"],
      [items |-> << [_id |-> "p_phys", amount |-> 0, requirements |-> NoRequirements] >>],
      [items |-> << [_id |-> "p_phys", amount |-> 2, requirements |-> NoRequirements],
                    [_id |-> "p_subs", amount |-> 1, requirements |-> NoRequirements] >>] }

\* ------------------------------------------------------------- requests
\* The params of delete, updateCartItemAmount and updateMyCart are read in
\* the then() callback that follows cart.me, so they are drawn there.

\* a request context is taken; the two contexts are interchangeable, so the
\* second is used only while the first is busy
Free(r) ==
    /\ req[r].pc = "idle"
    /\ r = "r1" \/ req["r1"].pc # "idle"
    /\ Cardinality({x \in Req : req[x].pc # "idle"}) < par
    /\ ops < MaxOps
    /\ ops' = ops + 1

Begin(r, op, token) ==
    /\ Free(r)
    /\ req' = [req EXCEPT ![r] = [IdleReq EXCEPT !.pc = "me", !.op = op, !.token = token]]
    /\ last' = NoOp
    /\ UNCHANGED << store, nextId, now, sweep, par, first, cacher >>

\* a caller invokes cart.me
StartMe(r) == \E t \in Tokens : Begin(r, "me", t)

\* a caller invokes cart.delete
StartDelete(r) == \E t \in Tokens : Begin(r, "delete", t)

\* a caller invokes cart.updateCartItemAmount
StartUpdateCartItemAmount(r) == \E t \in Tokens : Begin(r, "updateCartItemAmount", t)

\* a caller invokes cart.updateMyCart
StartUpdateMyCart(r) == \E t \in Tokens : Begin(r, "updateMyCart", t)

\* a caller invokes cart.add with validated params; products.findWithId
\* answers and the first then() of the handler runs (lines 170-197)
StartAdd(r) ==
    /\ Free(r)
    /\ \E t \in Tokens, i \in ItemIds, a \in 1..MaxAmount :
       \E q \in RequirementsFor(i),
          lookup \in IF i \in ProductIds THEN {ListOf(Catalogue[i])}
                                         ELSE {NoResult, EmptyList} :
        LET chk == AddCheck(lookup, a)
            \* a rejected add ends before the cookie is read
            log == [NoOp EXCEPT !.op = "add", !.itemId = i, !.amount = a,
                                !.requirements = q, !.lookup = lookup,
                                !.passed = chk.amount, !.outcome = chk.outcome]
        IN  IF chk.outcome = "ok"
            THEN /\ req' = [req EXCEPT ![r] =
                               [IdleReq EXCEPT !.pc = "me", !.op = "add", !.token = t,
                                               !.itemId = i, !.asked = a,
                                               !.amount = chk.amount,
                                               !.requirements = q,
                                               !.product = lookup]]
                 /\ last' = NoOp
            ELSE /\ req' = req
                 /\ last' = log
    /\ UNCHANGED << store, nextId, now, sweep, par, first, cacher >>

\* actions.me: the request-scoped cache, else the storage query by hash
MeFind(r) ==
    /\ req[r].pc = "me"
    /\ IF req[r].token # "" /\ req[r].cart # NoCart
       THEN /\ req' = [req EXCEPT ![r].pc = "then"]
            /\ cacher' = Stored(cacher, Key(r), req[r].cart)
       ELSE \/ \* storage failure: logged, me resolves to undefined
               /\ req' = [req EXCEPT ![r].pc = "then"]
               /\ cacher' = cacher
            \/ /\ FindByHash(req[r].token) # {}
               /\ req' = [req EXCEPT ![r].pc = "then",
                                     ![r].cart = First(FindByHash(req[r].token))]
               /\ cacher' = Stored(cacher, Key(r), First(FindByHash(req[r].token)))
            \/ /\ FindByHash(req[r].token) = {}
               /\ req' = [req EXCEPT ![r].pc = "create"]
               /\ cacher' = cacher
    /\ last' = NoOp
    /\ UNCHANGED << store, nextId, now, sweep, ops, par, first >>

\* createEmptyCart: a new empty cart for the token, stamped now; the owner
\* and the order reference have no value yet ("" for an anonymous caller).
\* dateCreated, which no handler reads or writes, is left out of the documents
EmptyCart(id, token, t) ==
    [_id |-> id, user |-> Owner(token), ip |-> RemoteAddress, hash |-> token,
     order |-> "", dateUpdated |-> t, items |-> << >>]

MeCreate(r) ==
    /\ req[r].pc = "create"
    /\ LET cart == EmptyCart(nextId, req[r].token, now)
       IN  /\ store' = store \cup {cart}
           /\ req' = [req EXCEPT ![r].pc = "then", ![r].cart = cart]
           /\ cacher' = Stored(cacher, Key(r), cart)
    /\ nextId' = nextId + 1
    /\ last' = NoOp
    /\ sweep' = Disturbed
    /\ UNCHANGED << now, ops, par, first >>

\* what the latest step completed, for request r
Log(r) == [NoOp EXCEPT !.op = req[r].op, !.token = req[r].token, !.base = req[r].cart,
                       !.cart = req[r].cart, !.hit = req[r].hit]

\* the request ends; store' is the storage it leaves behind
Done(r, log) ==
    /\ req' = [req EXCEPT ![r] = IdleReq]
    /\ last' = log
    /\ first' = IF first.mode = "unset"
                THEN [mode |-> "set", log |-> log, store |-> store']
                ELSE first

\* cart.me returns to its caller
MeReturn(r) ==
    /\ req[r].pc = "then"
    /\ req[r].op = "me"
    /\ UNCHANGED << store, nextId, now, sweep, ops, par, cacher >>
    /\ Done(r, [Log(r) EXCEPT !.outcome = "ok"])

\* cart is undefined: reading cart.items or setting cart.dateUpdated throws
Crash(r, log) ==
    /\ UNCHANGED << store, nextId, now, sweep, ops, par, cacher >>
    /\ Done(r, [log EXCEPT !.outcome = "TypeError"])

\* the handler returns undefined without writing (no items in the cart)
ReturnUndefined(r, log) ==
    /\ UNCHANGED << store, nextId, now, sweep, ops, par, cacher >>
    /\ Done(r, [log EXCEPT !.outcome = "ok"])

\* Persist whose failed write has stored the items
Persist_Torn(r, log, cart, event) ==
    /\ \/ /\ store' = UpdateById(cart._id, PrepareForUpdate(cart))
          /\ cacher' = EntityChanged(cacher)
          /\ Done(r, [log EXCEPT !.cart = cart, !.outcome = "ok", !.event = event])
       \/ /\ store' = UpdateById(cart._id, [items |-> cart.items])
          /\ cacher' = cacher
          /\ Done(r, [log EXCEPT !.cart = cart, !.outcome = "StorageError"])
    /\ sweep' = Disturbed
    /\ UNCHANGED << nextId, now, ops, par >>

\* ctx.meta.cart = cart; adapter.updateById(ctx.meta.cart._id,
\* prepareForUpdate(cart)); then entityChanged(event).  The write succeeds
\* or fails; the cart object was changed in place before it.  After the
\* write, entityChanged has the cache of the service cleaned
Persist(r, log, cart, event) ==
    /\ \/ /\ store' = UpdateById(cart._id, PrepareForUpdate(cart))
          /\ cacher' = EntityChanged(cacher)
          /\ Done(r, [log EXCEPT !.cart = cart, !.outcome = "ok", !.event = event])
       \/ /\ store' = store
          /\ cacher' = cacher
          /\ Done(r, [log EXCEPT !.cart = cart, !.outcome = "StorageError"])
    /\ sweep' = Disturbed
    /\ UNCHANGED << nextId, now, ops, par >>

\* the merge step of add: addCartItemRequirements, then addToCart
AddToCart(r) ==
    /\ req[r].pc = "then"
    /\ req[r].op = "add"
    /\ LET log == [Log(r) EXCEPT !.itemId = req[r].itemId, !.amount = req[r].asked,
                                 !.passed = req[r].amount,
                                 !.requirements = req[r].requirements,
                                 !.lookup = req[r].product, !.merge = TRUE]
       IN  IF req[r].cart = NoCart
           THEN Crash(r, log)
           ELSE LET cart == req[r].cart
                    items == MergeItems(cart.items, SnapshotId(req[r].product),
                                        req[r].amount, req[r].requirements)
                IN  Persist(r, log, Stamp([cart EXCEPT !.items = items], now), "")

\* actions.delete, lines 227-268
Delete(r) ==
    /\ req[r].pc = "then"
    /\ req[r].op = "delete"
    /\ \E itemId \in LineIds \cup {NoItem}, amount \in 0..MaxAmount :
        LET log == [Log(r) EXCEPT !.itemId = itemId, !.amount = amount]
            cart == req[r].cart
        IN  IF cart = NoCart
            THEN Crash(r, log)
            ELSE IF Len(cart.items) > 0
                 THEN Persist(r, log,
                              Stamp([cart EXCEPT !.items =
                                        DeleteItems(cart.items, itemId, amount)], now),
                              "removed")
                 ELSE ReturnUndefined(r, log)

\* actions.updateCartItemAmount, lines 289-331; amount 0 stands for "not given"
UpdateCartItemAmount(r) ==
    /\ req[r].pc = "then"
    /\ req[r].op = "updateCartItemAmount"
    /\ \E itemId \in LineIds \cup {NoItem}, given \in 0..MaxAmount :
        LET amount == IF given = 0 THEN 1 ELSE given
            log == [Log(r) EXCEPT !.itemId = itemId, !.amount = given, !.passed = amount]
            cart == req[r].cart
        IN  IF cart = NoCart
            THEN Crash(r, log)
            ELSE IF Len(cart.items) > 0
                 THEN Persist(r, log,
                              Stamp([cart EXCEPT !.items =
                                        UpdateItems(cart.items, itemId, amount)], now),
                              "updated")
                 ELSE ReturnUndefined(r, log)

\* actions.updateMyCart, lines 352-373
UpdateMyCart(r) ==
    /\ req[r].pc = "then"
    /\ req[r].op = "updateMyCart"
    /\ \E cartNew \in Patches :
        LET log == [Log(r) EXCEPT !.cartNew = cartNew]
        IN  IF req[r].cart = NoCart
            THEN Crash(r, log)
            ELSE Persist(r, log, Stamp(PatchCart(req[r].cart, cartNew), now), "updated")

\* --------------------------------------------------------------- sweeper

\* actions.cleanCarts, lines 388-404: the query, and one cart.remove call
\* issued for every cart found
SweepQuery ==
    /\ sweep.pc = "idle"
    /\ LET cutoff == now - RetentionWindow
           found == StaleCarts(store, cutoff)
       IN  sweep' = [IdleSweep EXCEPT !.pc = "removing", !.at = now, !.cutoff = cutoff,
                                      !.attempted = {c._id : c \in found},
                                      !.pending = {c._id : c \in found},
                                      !.before = store]
    /\ last' = NoOp
    /\ UNCHANGED << store, nextId, now, req, ops, par, first, cacher >>

\* one cart.remove call settles: the document is removed, or the call fails
SweepRemove ==
    /\ sweep.pc = "removing"
    /\ \E id \in sweep.pending :
        \/ /\ store' = {c \in store : c._id # id}
           /\ sweep' = [sweep EXCEPT !.pending = @ \ {id}, !.removed = @ \cup {id}]
        \/ /\ store' = store
           /\ sweep' = [sweep EXCEPT !.pending = @ \ {id}, !.failed = @ \cup {id}]
    /\ last' = NoOp
    /\ UNCHANGED << nextId, now, req, ops, par, first, cacher >>

\* Promise.all(promises), lines 406-408: rejects on the first rejection,
\* resolves with every result once all calls have resolved
SweepJoin ==
    /\ sweep.pc = "removing"
    /\ sweep.outcome = ""
    /\ \/ /\ sweep.failed # {}
          /\ sweep' = [sweep EXCEPT !.outcome = "error"]
       \/ /\ sweep.failed = {}
          /\ sweep.pending = {}
          /\ sweep' = [sweep EXCEPT !.outcome = "ok", !.results = sweep.removed]
    /\ last' = NoOp
    /\ UNCHANGED << store, nextId, now, req, ops, par, first, cacher >>

\* the run is over: every call has settled and the result was delivered
SweepFinish ==
    /\ sweep.pc = "removing"
    /\ sweep.outcome # ""
    /\ sweep.pending = {}
    /\ sweep' = IdleSweep
    /\ last' = NoOp
    /\ UNCHANGED << store, nextId, now, req, ops, par, first, cacher >>

Next ==
    \/ Tick
    \/ \E r \in Req :
        \/ StartMe(r) \/ StartAdd(r) \/ StartDelete(r)
        \/ StartUpdateCartItemAmount(r) \/ StartUpdateMyCart(r)
        \/ MeFind(r) \/ MeCreate(r) \/ MeReturn(r)
        \/ AddToCart(r) \/ Delete(r) \/ UpdateCartItemAmount(r) \/ UpdateMyCart(r)
    \/ SweepQuery \/ SweepRemove \/ SweepJoin \/ SweepFinish

Spec == Init /\ [][Next]_vars

\* ------------------------------------------------ a pair of requests
\* Two requests are observed against carts that earlier adds left behind.

Line(id, amount, requirements) ==
    [_id |-> id, amount |-> amount, requirements |-> requirements]

\* the items of h1's cart when the pair starts
SeedItems ==
    { << Line("p_phys", 2, NoRequirements) >>,
      << Line("p_phys", 1, Engraving) >>,
      << Line("p_phys", 1, NoRequirements), Line("p_subs", 1, NoRequirements) >> }

SeedCart(items) == [EmptyCart(1, "h1", 0) EXCEPT !.items = items]

\* the cart collection when the pair starts
SeedStores ==
    {{}} \cup {{SeedCart(i)} : i \in SeedItems}
         \cup {{SeedCart(i), EmptyCart(2, "h2", 0)} : i \in SeedItems}

PairInit(n) ==
    /\ store \in SeedStores
    /\ nextId = 3
    /\ now = 0
    /\ req = [r \in Req |-> IdleReq]
    /\ last = NoOp
    /\ sweep = IdleSweep
    /\ ops = 0
    /\ par = n
    /\ first = Awaited
    /\ cacher = NoCacher

\* a caller sends updateCartItemAmount or updateMyCart ...
RetryFirst(r) ==
    /\ first.mode = "unset"
    /\ StartUpdateCartItemAmount(r) \/ StartUpdateMyCart(r)

\* ... and, once it has completed, sends the same request again
Retry(r) ==
    /\ first.mode = "set"
    /\ Begin(r, first.log.op, first.log.token)

\* the params of the second call are those of the first
SameArguments ==
    first.mode = "set"
    => /\ last'.itemId = first.log.itemId
       /\ last'.amount = first.log.amount
       /\ last'.cartNew = first.log.cartNew

RetryUpdateCartItemAmount(r) == UpdateCartItemAmount(r) /\ SameArguments

RetryUpdateMyCart(r) == UpdateMyCart(r) /\ SameArguments

RetryInit == PairInit(1)

RetryNext ==
    \/ Tick
    \/ \E r \in Req :
        \/ RetryFirst(r) \/ Retry(r)
        \/ MeFind(r) \/ MeCreate(r)
        \/ RetryUpdateCartItemAmount(r) \/ RetryUpdateMyCart(r)

RetrySpec == RetryInit /\ [][RetryNext]_vars

\* the caller with cookie h1 sends a mutation request
StartMutation(r) == \E op \in {"delete", "updateCartItemAmount", "updateMyCart"} :
    Begin(r, op, "h1")

RaceInit == PairInit(2)

RaceNext ==
    \/ Tick
    \/ \E r \in Req :
        \/ StartMutation(r)
        \/ MeFind(r) \/ MeCreate(r)
        \/ Delete(r) \/ UpdateCartItemAmount(r) \/ UpdateMyCart(r)

RaceSpec == RaceInit /\ [][RaceNext]_vars

\* ------------------------------------------ a malformed query result
\* cart.find answers with a nested collection, [[cart]], for a stored cart:
\* found[0] is an Array, the shape test of line 130 fails and the handler
\* takes the branch of "no cart found"
MeFindNested(r) ==
    /\ req[r].pc = "me"
    /\ ~(req[r].token # "" /\ req[r].cart # NoCart)
    /\ FindByHash(req[r].token) # {}
    /\ req' = [req EXCEPT ![r].pc = "create"]
    /\ last' = NoOp
    /\ UNCHANGED << store, nextId, now, sweep, ops, par, first, cacher >>

ShapeNext ==
    \/ Tick
    \/ \E r \in Req :
        \/ StartMe(r) \/ StartUpdateMyCart(r)
        \/ MeFind(r) \/ MeFindNested(r) \/ MeCreate(r)
        \/ MeReturn(r) \/ UpdateMyCart(r)

ShapeSpec == Init /\ [][ShapeNext]_vars

\* ------------------------------------------------- with a read cache
\* The broker has a cacher: calls of cart.me go through it.

\* the cacher holds a result under the key of the call
Hit(r) == cacher.on /\ \E e \in cacher.entries : e.key = Key(r)

\* a caller invokes cart.me, with or without a dateUpdated param
CacheStartMe(r) ==
    /\ Free(r)
    /\ \E t \in Tokens, d \in {NoDate, 0} :
         req' = [req EXCEPT ![r] = [IdleReq EXCEPT !.pc = "me", !.op = "me", !.token = t,
                                                  !.dateUpdated = d]]
    /\ last' = NoOp
    /\ UNCHANGED << store, nextId, now, sweep, par, first, cacher >>

\* the call of cart.me is answered from the cacher; the handler does not run
MeCached(r) ==
    /\ req[r].pc = "me"
    /\ Hit(r)
    /\ \E e \in cacher.entries :
         /\ e.key = Key(r)
         /\ req' = [req EXCEPT ![r].pc = "then", ![r].cart = e.value, ![r].hit = TRUE]
    /\ last' = NoOp
    /\ UNCHANGED << store, nextId, now, sweep, ops, par, first, cacher >>

\* nothing is cached under the key: the handler runs
MeMiss(r) == ~Hit(r) /\ MeFind(r)

\* ttl: 30: the cacher drops an entry
Expire ==
    /\ \E e \in cacher.entries : cacher' = [cacher EXCEPT !.entries = @ \ {e}]
    /\ last' = NoOp
    /\ UNCHANGED << store, nextId, now, req, sweep, ops, par, first >>

CacheInit ==
    /\ store \in SeedStores
    /\ nextId = 3
    /\ now = 0
    /\ req = [r \in Req |-> IdleReq]
    /\ last = NoOp
    /\ sweep = IdleSweep
    /\ ops = 0
    /\ par = 1
    /\ first = Awaited
    /\ cacher = EmptyCacher

CacheNext ==
    \/ Tick
    \/ Expire
    \/ \E r \in Req :
        \/ CacheStartMe(r) \/ StartMutation(r)
        \/ MeCached(r) \/ MeMiss(r) \/ MeCreate(r) \/ MeReturn(r)
        \/ Delete(r) \/ UpdateCartItemAmount(r) \/ UpdateMyCart(r)

CacheSpec == CacheInit /\ [][CacheNext]_vars

\* ================================================================ claims

\* helpers of the formulas
HasOrder(c) == c.order # ""
AddRejected == last.op = "add" /\ ~last.merge
\* a request of add that passed the first then() of the handler
AddPassed(r) == req[r].op = "add"
AddMerged == last.op = "add" /\ last.merge /\ last.base # NoCart
Found == last.lookup.shape = "list"
Product == last.lookup.product
DigitalOrSubscription(p) == p.type = "subscription" \/ p.subtype = "digital"
\* the positions of the lines for a product id with given requirements
Lines(items, id, q) ==
    {i \in 1..Len(items) : items[i]._id = id /\ items[i].requirements = q}
\* the first line with the id, 0 when there is none
FirstLine(items, id) ==
    IF \E i \in 1..Len(items) : items[i]._id = id
    THEN CHOOSE i \in 1..Len(items) :
            /\ items[i]._id = id
            /\ \A j \in 1..(i - 1) : items[j]._id # id
    ELSE 0
\* items without position i
Without(items, i) == SubSeq(items, 1, i - 1) \o SubSeq(items, i + 1, Len(items))
\* the write went through: the stored document of ctx.meta.cart holds its items
Persisted ==
    last.outcome = "ok" =>
        \A c \in store : c._id = last.cart._id => c.items = last.cart.items

\* C1: storage never holds two distinct carts without an order reference
\* that have the same hash.
C1_OneCartPerHash ==
    \A c, d \in store :
        (~HasOrder(c) /\ ~HasOrder(d) /\ c.hash = d.hash) => c = d

\* C2: add fails with ProductNotFound whenever the product lookup returns
\* zero results (an empty list or nothing at all), and the merge step is
\* never reached for such a lookup.
C2_NotFoundRejected ==
    /\ \A r \in Req : AddPassed(r) => req[r].product.shape = "list"
    /\ (AddRejected /\ ~Found) => last.outcome = "ProductNotFound"
    /\ (last.op = "add" /\ last.merge) => Found

\* C3: add with an amount above the stock level of a physical product, or of
\* a digital/subscription product with a finite stock level, fails with
\* InsufficientStock; nothing is passed on to the merge step and the
\* stored carts do not change.
C3_MustReject(p, amount) ==
    /\ amount > p.stockAmount
    /\ ~DigitalOrSubscription(p) \/ p.stockAmount >= 0

C3_Rejects ==
    /\ \A r \in Req :
          (AddPassed(r) /\ req[r].product.shape = "list")
          => ~C3_MustReject(req[r].product.product, req[r].asked)
    /\ (AddRejected /\ Found /\ C3_MustReject(Product, last.amount))
       => last.outcome = "InsufficientStock"
    /\ (last.op = "add" /\ last.merge /\ Found)
       => ~C3_MustReject(Product, last.amount)

C3_Unchanged ==
    (last'.op = "add" /\ last'.outcome = "InsufficientStock")
    => (store' = store /\ req' = req)

C3_InsufficientStock == []C3_Rejects /\ [][C3_Unchanged]_vars

C3_Witness ==
    /\ last.op = "add"
    /\ last.outcome = "InsufficientStock"
    /\ Found
    /\ Product.type = "subscription"
    /\ Product.stockAmount = 1
    /\ last.amount = 3

\* C4: add of a digital or subscription product with the unlimited stock
\* level -1 passes the check for every requested amount, the amount passed
\* on to the merge step is 1, and a line added for it has amount 1.
C4_UnlimitedClampsToOne ==
    /\ ~(AddRejected /\ Found /\ DigitalOrSubscription(Product)
            /\ Product.stockAmount = -1)
    /\ \A r \in Req :
          (/\ AddPassed(r)
           /\ req[r].product.shape = "list"
           /\ DigitalOrSubscription(req[r].product.product)
           /\ req[r].product.product.stockAmount = -1)
          => req[r].amount = 1
    /\ (AddMerged /\ Found /\ DigitalOrSubscription(Product)
            /\ Product.stockAmount = -1)
       => /\ last.passed = 1
          /\ Lines(last.base.items, last.itemId, last.requirements) = {}
             => /\ Len(last.cart.items) = Len(last.base.items) + 1
                /\ last.cart.items[Len(last.cart.items)]._id = last.itemId
                /\ last.cart.items[Len(last.cart.items)].amount = 1

C4_Witness ==
    /\ AddMerged
    /\ last.outcome = "ok"
    /\ Found
    /\ Product.type = "subscription"
    /\ Product.stockAmount = -1
    /\ last.amount = 3
    /\ Len(last.base.items) = 0
    /\ \E c \in store : c._id = last.cart._id /\ Len(c.items) = 1 /\ c.items[1].amount = 1

\* C5: a successful add of amount b, within the stock check, to a cart that
\* holds one line of amount a for that product and those requirements
\* leaves that one line with amount a + b and adds no line; to a cart that
\* holds none it appends one line of amount b.
C5_AddsAccumulate ==
    (/\ AddMerged
     /\ last.outcome = "ok"
     /\ Found
     /\ last.amount <= Product.stockAmount
     /\ Cardinality(Lines(last.base.items, last.itemId, last.requirements)) <= 1)
    => LET old == Lines(last.base.items, last.itemId, last.requirements)
           new == Lines(last.cart.items, last.itemId, last.requirements)
       IN  /\ last.passed = last.amount
           /\ Cardinality(new) = 1
           /\ old = {} =>
                /\ Len(last.cart.items) = Len(last.base.items) + 1
                /\ \A i \in new : last.cart.items[i].amount = last.amount
           /\ old # {} =>
                /\ Len(last.cart.items) = Len(last.base.items)
                /\ new = old
                /\ \A i \in new :
                      last.cart.items[i].amount = last.base.items[i].amount + last.amount
           /\ Persisted

C5_Witness ==
    /\ AddMerged
    /\ last.outcome = "ok"
    /\ last.itemId = "p_phys"
    /\ last.amount = 2
    /\ \E i \in Lines(last.base.items, last.itemId, last.requirements) :
          last.base.items[i].amount = 1
    /\ \E c \in store :
          /\ c._id = last.cart._id
          /\ Len(c.items) = 1
          /\ c.items[1].amount = 3

\* C6: delete with an itemId.  A matching line of amount a and a positive
\* amount d: the line is removed when a - d <= 0 and stays with a - d
\* otherwise; no amount given: the line is removed.  All other lines keep
\* their amount and order.  No matching line: the items stay as they are
\* and the miss raises no error.
C6_DeleteLine ==
    (last.op = "delete" /\ last.base # NoCart /\ last.itemId # NoItem)
    => LET old == last.base.items
           new == last.cart.items
           i == FirstLine(old, last.itemId)
           d == last.amount
       IN  /\ i = 0 => (new = old /\ last.outcome \in {"ok", "StorageError"})
           /\ (i > 0 /\ d > 0 /\ old[i].amount - d <= 0) => new = Without(old, i)
           /\ (i > 0 /\ d > 0 /\ old[i].amount - d > 0)
              => new = [old EXCEPT ![i].amount = old[i].amount - d]
           /\ (i > 0 /\ d = 0) => new = Without(old, i)
           /\ Len(old) > 0 => Persisted

C6_Witness ==
    /\ last.op = "delete"
    /\ last.outcome = "ok"
    /\ last.base # NoCart
    /\ Len(last.base.items) = 2
    /\ last.itemId = last.base.items[1]._id
    /\ last.amount = 2
    /\ last.base.items[1].amount = 2
    /\ \E c \in store : c._id = last.cart._id /\ c.items = << last.base.items[2] >>

\* C7: updateCartItemAmount on a line that carries requirements leaves the
\* line in place with amount 1, for every requested amount and for the
\* default.
C7_RequirementsPinAmount ==
    (/\ last.op = "updateCartItemAmount"
     /\ last.base # NoCart
     /\ FirstLine(last.base.items, last.itemId) > 0
     /\ Len(last.base.items[FirstLine(last.base.items, last.itemId)].requirements) > 0)
    => LET i == FirstLine(last.base.items, last.itemId)
       IN  /\ Len(last.cart.items) = Len(last.base.items)
           /\ last.cart.items[i] = [last.base.items[i] EXCEPT !.amount = 1]
           /\ Persisted

C7_Witness ==
    /\ last.op = "updateCartItemAmount"
    /\ last.outcome = "ok"
    /\ last.base # NoCart
    /\ last.amount = 3
    /\ Len(last.base.items) = 1
    /\ last.base.items[1]._id = last.itemId
    /\ last.base.items[1].requirements = Engraving
    /\ last.base.items[1].amount = 2
    /\ \E c \in store : c._id = last.cart._id /\ c.items[1].amount = 1

C9_SweepReportsAll ==
    (sweep.outcome # "" /\ sweep.failed # {})
    => /\ sweep.outcome = "ok"
       /\ Cardinality(sweep.results) = Cardinality(sweep.attempted)

\* C10: a removal is attempted for exactly the carts stored at the query
\* whose dateUpdated is strictly before now minus one month; with no
\* concurrent operation, once every call has settled each of them is
\* removed or its removal failed, and the carts at or after the cutoff
\* are stored as they were.
C10_SweepsExactlyStale ==
    sweep.pc = "removing"
    => LET stale == {c \in sweep.before : c.dateUpdated < sweep.at - RetentionWindow}
       IN  /\ sweep.attempted = {c._id : c \in stale}
           /\ (sweep.quiet /\ sweep.pending = {})
              => /\ sweep.removed \cup sweep.failed = sweep.attempted
                 /\ \A c \in sweep.before \ stale : c \in store
                 /\ \A c \in stale :
                       IF c._id \in sweep.failed
                       THEN c \in store
                       ELSE \A d \in store : d._id # c._id
                 /\ store \subseteq sweep.before

C10_Witness ==
    /\ sweep.pc = "removing"
    /\ sweep.quiet
    /\ sweep.pending = {}
    /\ sweep.failed # {}
    /\ sweep.removed # {}

\* the operations that resolve the cart through cart.me and change it
Mutations == {"delete", "updateCartItemAmount", "updateMyCart"}

\* C11: when the storage read inside me fails, me resolves to an empty
\* result without raising, and delete, updateCartItemAmount and
\* updateMyCart, handed that empty result, complete with an empty result
\* and raise no error.
C11_NoCartNoCrash ==
    (last.op \in Mutations \cup {"me"} /\ last.base = NoCart)
    => (last.outcome = "ok" /\ last.cart = NoCart)

\* the cart collection, dateUpdated left aside
ModuloDate(carts) == {[c EXCEPT !.dateUpdated = 0] : c \in carts}

\* C12: updateCartItemAmount and updateMyCart are idempotent: when a call
\* has completed and the same call is made again, with nothing in
\* between, storage ends as the first call left it, apart from
\* dateUpdated.
C12_RetrySafe ==
    (/\ first.mode = "set"
     /\ first.log.outcome = "ok"
     /\ ops = 2
     /\ last.op \in {"updateCartItemAmount", "updateMyCart"})
    => ModuloDate(store) = ModuloDate(first.store)

\* C13 as stated: when the storage write of delete, updateCartItemAmount
\* or updateMyCart fails, the error reaches the caller, no notification is
\* emitted, and the cart held in ctx.meta.cart is the cart as it was before
\* the operation.
C13_CacheAsBefore ==
    (last.op \in Mutations /\ last.outcome = "StorageError")
    => (last.event = "" /\ last.cart = last.base)

\* C13, amended: when the storage write fails, the error reaches the
\* caller, no notification is emitted and the cart collection is left as it
\* was; the cart held in ctx.meta.cart is the changed cart, stamped with
\* the time of the call.
C13_Failed ==
    (last.op \in Mutations /\ last.outcome = "StorageError")
    => /\ last.event = ""
       /\ last.base # NoCart
       /\ last.cart # NoCart
       /\ last.cart.dateUpdated = now

C13_StoreUnchanged ==
    (last'.op \in Mutations /\ last'.outcome = "StorageError") => store' = store

C13_WriteFailure == []C13_Failed /\ [][C13_StoreUnchanged]_vars

C13_Witness ==
    /\ last.op = "delete"
    /\ last.outcome = "StorageError"
    /\ Len(last.base.items) = 1
    /\ last.cart.items = << >>
    /\ last.base \in store

\* C14: every line of every stored cart has an amount above 0.
C14_PositiveAmounts ==
    \A c \in store : \A i \in 1..Len(c.items) : c.items[i].amount > 0

\* C18: updateMyCart, whatever the patch holds, writes to the record of the
\* cart resolved for the caller's token: the id handed to the storage
\* update is the id of the resolved cart and the payload has no _id.
C18_OwnRecordOnly ==
    (last.op = "updateMyCart" /\ last.base # NoCart)
    => /\ last.cart._id = last.base._id
       /\ "_id" \notin DOMAIN PrepareForUpdate(last.cart)

\* no line for a product with a finite stock level is above that level
WithinStock(items) ==
    \A i \in 1..Len(items) :
        (items[i]._id \in ProductIds /\ Catalogue[items[i]._id].stockAmount >= 0)
        => items[i].amount <= Catalogue[items[i]._id].stockAmount

\* C19: the amount of a line for a product with a finite stock level never
\* exceeds that level; here for the operations after add: when no line of
\* the resolved cart is above the stock level of its product, none of the
\* cart that delete or updateCartItemAmount stores is.
C19_StaysWithinStock ==
    (/\ last.op \in {"delete", "updateCartItemAmount"}
     /\ last.outcome = "ok"
     /\ last.base # NoCart
     /\ WithinStock(last.base.items))
    => \A c \in store : c._id = last.cart._id => WithinStock(c.items)

\* C20: a sweep run removes no cart whose stored dateUpdated, refreshed by
\* a mutation that completed after the run's query, is at or after the
\* run's cutoff.
C20_Removal ==
    \A c \in store :
        (c._id \in sweep'.removed \ sweep.removed) => c.dateUpdated < sweep.cutoff

C20_FreshCartKept == [][C20_Removal]_vars

\* C15: when the storage query by hash answers with a nested collection
\* that holds the cart, me takes the stored cart; it creates no new cart
\* for a token whose cart is stored.
C15_NestedTaken ==
    \A r \in Req : req[r].pc = "create" => FindByHash(req[r].token) = {}

\* the items a mutation computes from the cart it read
OwnItems(log) ==
    CASE log.op = "delete" -> DeleteItems(log.base.items, log.itemId, log.amount)
      [] log.op = "updateCartItemAmount" ->
            UpdateItems(log.base.items, log.itemId, log.passed)
      [] OTHER -> IF "items" \in DOMAIN log.cartNew
                  THEN log.cartNew.items ELSE log.base.items
\* the request wrote to storage
Wrote(log) == log.op \in Mutations /\ log.outcome = "ok" /\ log.event # ""

\* C16: of two mutation requests handled at the same time, each writes
\* what it computed from its own read and no write is refused as a
\* conflict: after a write the stored cart holds exactly the items the
\* writer computed from the cart it read, whatever the other request
\* wrote in between, so the earlier writer's change can be lost.
C16_LastWriteWins ==
    /\ last.outcome \in {"", "ok", "StorageError", "TypeError"}
    /\ Wrote(last)
       => /\ last.cart.items = OwnItems(last)
          /\ \A c \in store : c._id = last.cart._id => c.items = last.cart.items

\* both requests read the same cart, both writes succeeded, and the change
\* of the first writer (a delete) is gone
C16_Witness ==
    /\ first.mode = "set"
    /\ Wrote(first.log)
    /\ Wrote(last)
    /\ first.log.op = "delete"
    /\ last.op = "updateCartItemAmount"
    /\ first.log.base = last.base
    /\ first.log.cart.items # first.log.base.items
    /\ last.cart.items # last.base.items
    /\ \E c \in store :
          /\ c._id = last.base._id
          /\ c.items = last.cart.items
          /\ c.items # first.log.cart.items
          /\ Len(c.items) > Len(first.log.cart.items)

====
